---- MODULE Spec2Model ----
(***************************************************************************)
(* Model of the Binance Futures Testnet trading bot: bot.py (validate_input *)
(* and main) and trader.py (BasicBot).                                      *)
(*                                                                          *)
(* Python strings are sequences of one-character strings, so that upper(),  *)
(* replace() and float() are computed on the characters.  Optional values   *)
(* are records: None, or a tagged record carrying the value.                *)
(***************************************************************************)
EXTENDS Integers, Sequences, FiniteSets, TLC

VARIABLES
    pc,            \* position of main (or of the standalone validate_input call)
    args,          \* argparse Namespace (bot.py:133), or the arguments of validate_input
    validated,     \* local `validated` of main (bot.py:135)
    order_result,  \* local `order_result` of main (bot.py:147)
    api_calls,     \* calls made on the exchange client, in order, with their outcome
    log,           \* records emitted to the logging collaborator
    stdout,        \* lines printed to standard output
    exit_status    \* <<>> while running, <<code>> once the process has ended

vars == <<pc, args, validated, order_result, api_calls, log, stdout, exit_status>>

----------------------------------------------------------------------------
(* Bounds *)

\* longest numeric argument string drawn over NumAlphabet
MaxLen == 2

----------------------------------------------------------------------------
(* Python values *)

None == [tag |-> "None"]
Unset == [tag |-> "unset"]
Str(s) == [tag |-> "str", s |-> s]

Finite(v) == [tag |-> "float", kind |-> "finite", val |-> v]
NaN == [tag |-> "float", kind |-> "nan", val |-> 0]
Inf(sign) == [tag |-> "float", kind |-> "inf", val |-> sign]

LowerLetters == <<"a","b","c","d","e","f","g","h","i","j","k","l","m",
                  "n","o","p","q","r","s","t","u","v","w","x","y","z">>
UpperLetters == <<"A","B","C","D","E","F","G","H","I","J","K","L","M",
                  "N","O","P","Q","R","S","T","U","V","W","X","Y","Z">>
DigitChars == <<"0","1","2","3","4","5","6","7","8","9">>

upperChar(c) ==
    IF \E i \in DOMAIN LowerLetters : LowerLetters[i] = c
    THEN UpperLetters[CHOOSE i \in DOMAIN LowerLetters : LowerLetters[i] = c]
    ELSE c

lowerChar(c) ==
    IF \E i \in DOMAIN UpperLetters : UpperLetters[i] = c
    THEN LowerLetters[CHOOSE i \in DOMAIN UpperLetters : UpperLetters[i] = c]
    ELSE c

\* str.upper()
upper(s) == [i \in DOMAIN s |-> upperChar(s[i])]

\* str.lower(), used by float() to recognise nan / inf in any case
lower(s) == [i \in DOMAIN s |-> lowerChar(s[i])]

\* str.replace(old, "") for a one-character old
RECURSIVE removeChar(_, _)
removeChar(s, c) ==
    IF s = <<>> THEN <<>>
    ELSE IF Head(s) = c THEN removeChar(Tail(s), c)
    ELSE <<Head(s)>> \o removeChar(Tail(s), c)

isDigit(c) == \E i \in DOMAIN DigitChars : DigitChars[i] = c
digitVal(c) == (CHOOSE i \in DOMAIN DigitChars : DigitChars[i] = c) - 1
isDigits(s) == Len(s) > 0 /\ \A i \in DOMAIN s : isDigit(s[i])

RECURSIVE decVal(_)
decVal(s) ==
    IF s = <<>> THEN 0
    ELSE decVal(SubSeq(s, 1, Len(s) - 1)) * 10 + digitVal(s[Len(s)])

\* float(str) on strings of signs, digits and letters: an optional sign, then
\* decimal digits, "nan", "inf" or "infinity" (any case); anything else raises
\* ValueError.  [ok |-> FALSE] stands for the ValueError.  Whitespace, ".",
\* exponents and "_" occur in no input string and are not read here.
float(s) ==
    LET signed == Len(s) > 0 /\ s[1] \in {"-", "+"}
        neg    == Len(s) > 0 /\ s[1] = "-"
        body   == IF signed THEN Tail(s) ELSE s
    IN  IF isDigits(body)
        THEN [ok |-> TRUE,
              value |-> Finite(IF neg THEN 0 - decVal(body) ELSE decVal(body))]
        ELSE IF lower(body) = <<"n","a","n">>
        THEN [ok |-> TRUE, value |-> NaN]
        ELSE IF lower(body) \in {<<"i","n","f">>,
                                 <<"i","n","f","i","n","i","t","y">>}
        THEN [ok |-> TRUE, value |-> Inf(IF neg THEN 0 - 1 ELSE 1)]
        ELSE [ok |-> FALSE, value |-> None]

\* x <= 0 on floats: every comparison with nan is False
floatLeZero(x) ==
    CASE x.kind = "finite" -> x.val <= 0
      [] x.kind = "nan"    -> FALSE
      [] x.kind = "inf"    -> x.val < 0

\* a > b on floats
floatGt(a, b) ==
    CASE a.kind = "nan" \/ b.kind = "nan" -> FALSE
      [] a.kind = "inf" /\ a.val > 0 -> ~(b.kind = "inf" /\ b.val > 0)
      [] a.kind = "inf" /\ a.val < 0 -> FALSE
      [] OTHER -> IF b.kind = "inf" THEN b.val < 0 ELSE a.val > b.val

\* a < b on floats
floatLt(a, b) == floatGt(b, a)

\* truth value of an Optional[float]: None and 0.0 are false
truthy(x) == x # None /\ ~(x.kind = "finite" /\ x.val = 0)

----------------------------------------------------------------------------
(* Enum literals of trader.py *)

BUY == <<"B","U","Y">>
SELL == <<"S","E","L","L">>
MARKET == <<"M","A","R","K","E","T">>
LIMIT == <<"L","I","M","I","T">>
STOP_LIMIT == <<"S","T","O","P","_","L","I","M","I","T">>
GTC == <<"G","T","C">>

OrderSide == {BUY, SELL}
OrderType == {MARKET, LIMIT, STOP_LIMIT}

----------------------------------------------------------------------------
(* bot.py: validate_input *)

Rec(level, msg) == [level |-> level, msg |-> msg]

\* the tuple validate_input returns on success
Tuple(symbol, side, order_type, q, p, sp) ==
    [tag |-> "tuple", symbol |-> symbol, side |-> side, type |-> order_type,
     quantity |-> q, price |-> p, stop_price |-> sp]

\* symbol.upper().replace("/", "")
normalizeSymbol(symbol) == removeChar(upper(symbol), "/")

\* parsePositive with "< 0" in place of "<= 0": zero passes
parsePositiveOrZero(text) ==
    LET f == float(text)
    IN  IF f.ok /\ ~(floatLeZero(f.value) /\ f.value # Finite(0))
        THEN f ELSE [ok |-> FALSE, value |-> None]

\* the try block of quantity (and of price): float(), then "<= 0" raises
parsePositive(text) ==
    LET f == float(text)
    IN  IF f.ok /\ ~floatLeZero(f.value) THEN f ELSE [ok |-> FALSE, value |-> None]

\* stopWarnings with ">=" and "<=" in place of ">" and "<"
stopWarningsNonStrict(side_upper, p, sp) ==
    IF p # None /\ ~floatLt(sp, p) /\ side_upper = <<"S","E","L","L">>
    THEN <<[level |-> "WARNING",
            msg |-> "Stop Price > Limit Price for a SELL order (may trigger immediately)."]>>
    ELSE IF p # None /\ ~floatGt(sp, p) /\ side_upper = <<"B","U","Y">>
    THEN <<[level |-> "WARNING",
            msg |-> "Stop Price < Limit Price for a BUY order (may trigger immediately)."]>>
    ELSE <<>>

\* the warnings of the stop-price try block
stopWarnings(side_upper, p, sp) ==
    IF p # None /\ floatGt(sp, p) /\ side_upper = SELL
    THEN <<Rec("WARNING", "Stop Price > Limit Price for a SELL order (may trigger immediately).")>>
    ELSE IF p # None /\ floatLt(sp, p) /\ side_upper = BUY
    THEN <<Rec("WARNING", "Stop Price < Limit Price for a BUY order (may trigger immediately).")>>
    ELSE <<>>

\* validate_input: [result |-> the returned value, log |-> the records emitted]
validate_input(symbol, side, order_type, quantity, price, stop_price) ==
    LET side_upper == upper(side)
        order_type_upper == upper(order_type)
        fq == parsePositive(quantity)
        needsPrice == order_type_upper \in {LIMIT, STOP_LIMIT}
        fp == IF price = None THEN [ok |-> FALSE, value |-> None]
              ELSE parsePositive(price.s)
        p  == IF needsPrice THEN fp.value ELSE None
        needsStop == order_type_upper = STOP_LIMIT
        fsp == IF stop_price = None THEN [ok |-> FALSE, value |-> None]
               ELSE parsePositive(stop_price.s)
        sp == IF needsStop THEN fsp.value ELSE None
    IN  IF ~fq.ok
        THEN [result |-> None,
              log |-> <<Rec("ERROR", "Invalid quantity. Must be a positive number.")>>]
        ELSE IF needsPrice /\ price = None
        THEN [result |-> None,
              log |-> <<Rec("ERROR", "order requires a --price.")>>]
        ELSE IF needsPrice /\ ~fp.ok
        THEN [result |-> None,
              log |-> <<Rec("ERROR", "Invalid price. Must be a positive number.")>>]
        ELSE IF needsStop /\ stop_price = None
        THEN [result |-> None,
              log |-> <<Rec("ERROR", "STOP_LIMIT order requires a --stop-price.")>>]
        ELSE IF needsStop /\ ~fsp.ok
        THEN [result |-> None,
              log |-> <<Rec("ERROR", "Invalid stop-price. Must be a positive number.")>>]
        ELSE [result |-> Tuple(normalizeSymbol(symbol), side_upper, order_type_upper,
                               fq.value, p, sp),
              log |-> IF needsStop THEN stopWarnings(side_upper, p, sp) ELSE <<>>]

----------------------------------------------------------------------------
(* trader.py: BasicBot *)

\* What the exchange client's futures_create_order does: it returns a
\* response dict, raises BinanceAPIException(code, message), or raises
\* another Exception.
RespFields == {"status", "symbol", "orderId", "type", "price", "avgPrice"}

RespValues(f) ==
    CASE f = "status"   -> {"NEW", "FILLED", "CANCELED"}
      [] f = "symbol"   -> {"BTCUSDT"}
      [] f = "orderId"  -> {"4611"}
      [] f = "type"     -> {"LIMIT"}
      [] f = "price"    -> {"100.0"}
      [] f = "avgPrice" -> {"101.5"}

AllRespValues == UNION {RespValues(f) : f \in RespFields}

Responses ==
    UNION {{r \in [D -> AllRespValues] : \A f \in D : r[f] \in RespValues(f)} :
           D \in SUBSET RespFields}

Dict(items) == [tag |-> "dict", items |-> items]

Returns(r) == [kind |-> "return", response |-> Dict(r), code |-> 0]
RaisesApi(code) == [kind |-> "BinanceAPIException", response |-> None, code |-> code]
RaisesOther == [kind |-> "Exception", response |-> None, code |-> 0]

ApiErrorCodes == {0 - 2019}

CreateOrderOutcomes ==
    {Returns(r) : r \in Responses} \cup {RaisesApi(c) : c \in ApiErrorCodes}
    \cup {RaisesOther}

Call(api, params, outcome) == [api |-> api, params |-> params, outcome |-> outcome]

\* orderParams with timeInForce set when the dict is created, for every type
orderParamsAlwaysTimeInForce(symbol, side, order_type, quantity, price, time_in_force, stop_price) ==
    LET base == [symbol |-> symbol, side |-> side, type |-> order_type,
                 quantity |-> quantity, timeInForce |-> time_in_force]
        withLimit ==
            IF order_type = LIMIT /\ price # None
            THEN ("price" :> price) @@ base
            ELSE base
    IN  IF order_type = STOP_LIMIT /\ truthy(price) /\ truthy(stop_price)
        THEN ("price" :> price) @@ ("stopPrice" :> stop_price) @@ withLimit
        ELSE withLimit

\* the params dict place_order assembles (trader.py:78-92)
orderParams(symbol, side, order_type, quantity, price, time_in_force, stop_price) ==
    LET base == [symbol |-> symbol, side |-> side, type |-> order_type,
                 quantity |-> quantity]
        withLimit ==
            IF order_type = LIMIT /\ price # None
            THEN ("price" :> price) @@ ("timeInForce" :> time_in_force) @@ base
            ELSE base
    IN  IF order_type = STOP_LIMIT /\ truthy(price) /\ truthy(stop_price)
        THEN ("price" :> price) @@ ("stopPrice" :> stop_price)
             @@ ("timeInForce" :> time_in_force) @@ withLimit
        ELSE withLimit

\* place_order, given what futures_create_order does with the request:
\* [result |-> returned value, call |-> the call issued, log, stdout]
place_order(symbol, side, order_type, quantity, price, time_in_force, stop_price, outcome) ==
    LET params == orderParams(symbol, side, order_type, quantity, price,
                              time_in_force, stop_price)
        attempt == Rec("INFO", "Attempting to place order.")
        call == Call("futures_create_order", params, outcome.kind)
    IN  CASE outcome.kind = "return" ->
               [result |-> outcome.response, call |-> call,
                log |-> <<attempt, Rec("INFO", "Order placed successfully.")>>,
                stdout |-> <<>>]
          [] outcome.kind = "BinanceAPIException" ->
               [result |-> None, call |-> call,
                log |-> <<attempt, Rec("ERROR", "Binance API Error placing order")>>,
                stdout |-> <<[key |-> "FAILED (API Error)", value |-> "Code"]>>]
          [] OTHER ->
               [result |-> None, call |-> call,
                log |-> <<attempt, Rec("ERROR", "An unexpected error occurred while placing order")>>,
                stdout |-> <<[key |-> "FAILED (Unknown Error)", value |-> "exception"]>>]

place_market_order(symbol, side, quantity, outcome) ==
    place_order(symbol, side, MARKET, quantity, None, GTC, None, outcome)

place_limit_order(symbol, side, quantity, price, outcome) ==
    place_order(symbol, side, LIMIT, quantity, price, GTC, None, outcome)

place_stop_limit_order(symbol, side, quantity, price, stop_price, outcome) ==
    place_order(symbol, side, STOP_LIMIT, quantity, price, GTC, stop_price, outcome)

\* BasicBotInit without the re-raise of trader.py:46: the failure is only logged
BasicBotInitSwallowed(clientOk, infoOk) ==
    LET start == Rec("INFO", "Initializing BasicBot.")
        failed == Rec("ERROR", "Failed to initialize Binance Client.")
    IN  IF ~clientOk
        THEN [ok |-> TRUE, calls |-> <<>>, log |-> <<start, failed>>]
        ELSE IF ~infoOk
        THEN [ok |-> TRUE,
              calls |-> <<Call("futures_exchange_info", <<>>, "Exception")>>,
              log |-> <<start, failed>>]
        ELSE [ok |-> TRUE,
              calls |-> <<Call("futures_exchange_info", <<>>, "return")>>,
              log |-> <<start, Rec("INFO", "Binance Client initialized and connected.")>>]

\* BasicBot.__init__, given whether Client(...) and the connectivity check
\* futures_exchange_info() succeed: [ok |-> constructed, calls, log]
BasicBotInit(clientOk, infoOk) ==
    LET start == Rec("INFO", "Initializing BasicBot.")
        failed == Rec("ERROR", "Failed to initialize Binance Client.")
    IN  IF ~clientOk
        THEN [ok |-> FALSE, calls |-> <<>>, log |-> <<start, failed>>]
        ELSE IF ~infoOk
        THEN [ok |-> FALSE,
              calls |-> <<Call("futures_exchange_info", <<>>, "Exception")>>,
              log |-> <<start, failed>>]
        ELSE [ok |-> TRUE,
              calls |-> <<Call("futures_exchange_info", <<>>, "return")>>,
              log |-> <<start, Rec("INFO", "Binance Client initialized and connected.")>>]

----------------------------------------------------------------------------
(* Inputs *)

NumAlphabet == {"1", "-"}
SpecialNumStrings == {<<"0">>, <<"n","a","n">>, <<"i","n","f">>}

\* the strings given as quantity, --price and --stop-price
NumStrings == UNION {[1..k -> NumAlphabet] : k \in 0..MaxLen} \cup SpecialNumStrings
OptNumStrings == {None} \cup {Str(s) : s \in NumStrings}

\* values of BINANCE_API_KEY / BINANCE_API_SECRET: unset, empty, set
EnvValues == {None, Str(<<>>), Str(<<"k">>)}

\* command lines: no argument at all, or the four positionals and two options
ArgvSymbols == {<<"b","t","c","/","u","s","d","t">>}
ArgvSides == {BUY, SELL, <<"b","u","y">>}
ArgvTypes == {MARKET, LIMIT, STOP_LIMIT, <<"O","C","O">>}

Namespace(symbol, side, order_type, quantity, price, stop_price) ==
    [tag |-> "Namespace", symbol |-> symbol, side |-> side, order_type |-> order_type,
     quantity |-> quantity, price |-> price, stop_price |-> stop_price]

NoArguments == [tag |-> "argv", symbol |-> <<>>, side |-> <<>>, order_type |-> <<>>,
                quantity |-> <<>>, price |-> None, stop_price |-> None]

Argvs ==
    {NoArguments} \cup
    {Namespace(sy, si, ty, q, p, sp) :
        sy \in ArgvSymbols, si \in ArgvSides, ty \in ArgvTypes,
        q \in NumStrings, p \in OptNumStrings, sp \in OptNumStrings}

\* arguments of a direct call of validate_input
CallSymbols == {<<"b","t","c","/","u","s","d","t">>, <<"E","T","H","U","S","D","T">>}
CallSides == {BUY, SELL, <<"b","u","y">>, <<"S","e","l","l">>, <<"H","O","L","D">>}
CallTypes == {MARKET, LIMIT, STOP_LIMIT, <<"m","a","r","k","e","t">>,
              <<"S","t","o","p","_","L","i","m","i","t">>, <<"O","C","O">>}

----------------------------------------------------------------------------
(* bot.py: main *)

Falsy(v) == v = None \/ v.s = <<>>

Exit(code) == /\ pc' = "exited"
              /\ exit_status' = <<code>>

\* bot.py:76-81
MainCredentials ==
    /\ pc = "start"
    /\ \E api_key \in EnvValues, api_secret \in EnvValues :
        IF Falsy(api_key) \/ Falsy(api_secret)
        THEN /\ log' = Append(log, Rec("CRITICAL", "API Key or Secret not found in .env file. Exiting."))
             /\ Exit(1)
        ELSE /\ pc' = "construct"
             /\ UNCHANGED <<log, exit_status>>
    /\ UNCHANGED <<args, validated, order_result, api_calls, stdout>>

\* bot.py:83-87
MainConstructBot ==
    /\ pc = "construct"
    /\ \E clientOk \in BOOLEAN, infoOk \in BOOLEAN :
        LET bot == BasicBotInit(clientOk, infoOk)
        IN  /\ api_calls' = api_calls \o bot.calls
            /\ IF bot.ok
               THEN /\ log' = log \o bot.log
                    /\ pc' = "parse"
                    /\ UNCHANGED exit_status
               ELSE /\ log' = log \o bot.log
                             \o <<Rec("CRITICAL", "Bot initialization failed. Exiting.")>>
                    /\ Exit(1)
    /\ UNCHANGED <<args, validated, order_result, stdout>>

\* bot.py:89-133
MainParseArgs ==
    /\ pc = "parse"
    /\ \E argv \in Argvs :
        IF argv = NoArguments
        THEN /\ Exit(1)
             /\ UNCHANGED args
        ELSE IF argv.side \notin {BUY, SELL}
                \/ argv.order_type \notin {MARKET, LIMIT, STOP_LIMIT}
        THEN /\ Exit(2)
             /\ UNCHANGED args
        ELSE /\ args' = argv
             /\ pc' = "validate"
             /\ UNCHANGED exit_status
    /\ UNCHANGED <<validated, order_result, api_calls, log, stdout>>

\* MainValidate without the halt of bot.py:139-141: a rejection goes on to dispatch
MainValidateNoHalt ==
    /\ pc = "validate"
    /\ LET v == validate_input(args.symbol, args.side, args.order_type,
                               args.quantity, args.price, args.stop_price)
       IN  /\ validated' = v.result
           /\ log' = log \o v.log
    /\ stdout' = Append(stdout, [key |-> "Attempting to place", value |-> "order"])
    /\ pc' = "dispatch"
    /\ UNCHANGED <<args, order_result, api_calls, exit_status>>

\* bot.py:135-145
MainValidate ==
    /\ pc = "validate"
    /\ LET v == validate_input(args.symbol, args.side, args.order_type,
                               args.quantity, args.price, args.stop_price)
       IN  /\ validated' = v.result
           /\ IF v.result = None
              THEN /\ log' = log \o v.log
                            \o <<Rec("ERROR", "Order processing halted due to invalid input.")>>
                   /\ Exit(1)
                   /\ UNCHANGED stdout
              ELSE /\ log' = log \o v.log
                   /\ stdout' = Append(stdout, [key |-> "Attempting to place", value |-> "order"])
                   /\ pc' = "dispatch"
                   /\ UNCHANGED exit_status
    /\ UNCHANGED <<args, order_result, api_calls>>

\* the if / elif chain of bot.py:147-158:
\* [result |-> order_result, calls, log, stdout]
Dispatch(req, outcome) ==
    LET placed ==
            CASE req.type = MARKET ->
                   place_market_order(req.symbol, req.side, req.quantity, outcome)
              [] req.type = LIMIT ->
                   place_limit_order(req.symbol, req.side, req.quantity, req.price, outcome)
              [] OTHER ->
                   place_stop_limit_order(req.symbol, req.side, req.quantity,
                                          req.price, req.stop_price, outcome)
    IN  IF req.type \in {MARKET, LIMIT, STOP_LIMIT}
        THEN [result |-> placed.result, calls |-> <<placed.call>>,
              log |-> placed.log, stdout |-> placed.stdout]
        ELSE [result |-> None, calls |-> <<>>, log |-> <<>>, stdout |-> <<>>]

\* bot.py:147-158
MainDispatch ==
    /\ pc = "dispatch"
    /\ \E outcome \in CreateOrderOutcomes :
        LET d == Dispatch(validated, outcome)
        IN  /\ order_result' = d.result
            /\ api_calls' = api_calls \o d.calls
            /\ log' = log \o d.log
            /\ stdout' = stdout \o d.stdout
    /\ pc' = "report"
    /\ UNCHANGED <<args, validated, exit_status>>

Line(key, value) == [key |-> key, value |-> value]

\* dict.get(key, 'N/A')
Get(d, key) == IF key \in DOMAIN d THEN d[key] ELSE "N/A"

\* truth value of order_result: None and the empty dict are false
ResultTruthy(r) == r # None /\ DOMAIN r.items # {}

\* Report with nothing printed for a failed order
ReportSilentOnFailure(result) ==
    LET head == <<Line("---", "Execution Status")>>
        foot == <<Line("---", "Details saved in the log file")>>
    IN  IF ResultTruthy(result)
        THEN [stdout |-> head \o <<Line("STATUS", Get(result.items, "status")),
                                   Line("SYMBOL", Get(result.items, "symbol")),
                                   Line("ORDER ID", Get(result.items, "orderId"))>>
                         \o foot,
              log |-> <<Rec("INFO", "Final Order Status Output")>>]
        ELSE [stdout |-> head \o foot, log |-> <<>>]

\* the status block of bot.py:160-178: [stdout, log]
Report(result) ==
    LET head == <<Line("---", "Execution Status")>>
        foot == <<Line("---", "Details saved in the log file")>>
    IN  IF ResultTruthy(result)
        THEN LET d == result.items
                 status == Get(d, "status")
                 detail ==
                     IF status \in {"NEW", "PENDING_NEW"}
                     THEN <<Line("TYPE", Get(d, "type")), Line("PRICE", Get(d, "price"))>>
                     ELSE IF status \in {"FILLED", "PARTIALLY_FILLED"}
                     THEN <<Line("AVG FILL PRICE", Get(d, "avgPrice"))>>
                     ELSE <<>>
             IN  [stdout |-> head \o <<Line("STATUS", status),
                                       Line("SYMBOL", Get(d, "symbol")),
                                       Line("ORDER ID", Get(d, "orderId"))>>
                              \o detail \o foot,
                  log |-> <<Rec("INFO", "Final Order Status Output")>>]
        ELSE [stdout |-> head
                         \o <<Line("STATUS", "FAILED (Check log file for detailed error message)")>>
                         \o foot,
              log |-> <<>>]

\* MainReport ending with exit code 1 when the order failed
MainReportExitOneOnFailure ==
    /\ pc = "report"
    /\ LET r == Report(order_result)
       IN  /\ stdout' = stdout \o r.stdout
           /\ log' = log \o r.log
    /\ IF ResultTruthy(order_result) THEN Exit(0) ELSE Exit(1)
    /\ UNCHANGED <<args, validated, order_result, api_calls>>

\* bot.py:160-178, then the process ends normally
MainReport ==
    /\ pc = "report"
    /\ LET r == Report(order_result)
       IN  /\ stdout' = stdout \o r.stdout
           /\ log' = log \o r.log
    /\ Exit(0)
    /\ UNCHANGED <<args, validated, order_result, api_calls>>

Init ==
    /\ pc = "start"
    /\ args = Unset
    /\ validated = Unset
    /\ order_result = Unset
    /\ api_calls = <<>>
    /\ log = <<>>
    /\ stdout = <<>>
    /\ exit_status = <<>>

Next ==
    \/ MainCredentials
    \/ MainConstructBot
    \/ MainParseArgs
    \/ MainValidate
    \/ MainDispatch
    \/ MainReport

Spec == Init /\ [][Next]_vars

----------------------------------------------------------------------------
(* validate_input called on its own, on every argument combination *)

InitValidate ==
    /\ pc = "call"
    /\ args \in {Namespace(sy, si, ty, q, p, sp) :
                    sy \in CallSymbols, si \in CallSides, ty \in CallTypes,
                    q \in NumStrings, p \in OptNumStrings, sp \in OptNumStrings}
    /\ validated = Unset
    /\ order_result = Unset
    /\ api_calls = <<>>
    /\ log = <<>>
    /\ stdout = <<>>
    /\ exit_status = <<>>

CallValidateInput ==
    /\ pc = "call"
    /\ LET v == validate_input(args.symbol, args.side, args.order_type,
                               args.quantity, args.price, args.stop_price)
       IN  /\ validated' = v.result
           /\ log' = log \o v.log
    /\ pc' = "returned"
    /\ UNCHANGED <<args, order_result, api_calls, stdout, exit_status>>

NextValidate == CallValidateInput

ValidateSpec == InitValidate /\ [][NextValidate]_vars

----------------------------------------------------------------------------
(* Vocabulary of the properties *)

InvalidQuantity == Rec("ERROR", "Invalid quantity. Must be a positive number.")
MissingPrice == Rec("ERROR", "order requires a --price.")
InvalidPrice == Rec("ERROR", "Invalid price. Must be a positive number.")
MissingStopPrice == Rec("ERROR", "STOP_LIMIT order requires a --stop-price.")
InvalidStopPrice == Rec("ERROR", "Invalid stop-price. Must be a positive number.")
NoRejection == Rec("NONE", "accepted")
Halted == Rec("ERROR", "Order processing halted due to invalid input.")

RejectionReasons ==
    {InvalidQuantity, MissingPrice, InvalidPrice, MissingStopPrice, InvalidStopPrice}

\* the records of a given level, in order
RECURSIVE ofLevel(_, _)
ofLevel(records, level) ==
    IF records = <<>> THEN <<>>
    ELSE IF Head(records).level = level
         THEN <<Head(records)>> \o ofLevel(Tail(records), level)
         ELSE ofLevel(Tail(records), level)

Logged(record) == \E i \in DOMAIN log : log[i] = record
Printed(key) == \E i \in DOMAIN stdout : stdout[i].key = key
PrintedLine(key, value) == \E i \in DOMAIN stdout : stdout[i] = Line(key, value)

OrderCalls == {i \in DOMAIN api_calls : api_calls[i].api = "futures_create_order"}
InfoCalls == {i \in DOMAIN api_calls : api_calls[i].api = "futures_exchange_info"}
NoOrderCall == OrderCalls = {}
OrderCallRaised == \E i \in OrderCalls : api_calls[i].outcome # "return"
OrderCallReturned == \E i \in OrderCalls : api_calls[i].outcome = "return"

Exited == pc = "exited"
ExitedNonZero == pc = "exited" /\ Len(exit_status) = 1 /\ exit_status[1] # 0
ExitedZero == pc = "exited" /\ exit_status = <<0>>

FailedStatus == "FAILED (Check log file for detailed error message)"

\* a string that float() refuses, or whose value is <= 0
BadNumber(text) == ~float(text).ok \/ floatLeZero(float(text).value)

----------------------------------------------------------------------------
(* C1: whenever validate_input rejects the inputs, main has halted with a   *)
(* nonzero exit code, order_result was never assigned and no order-creation *)
(* call was issued.                                                         *)
C1_RejectionNeverReachesOrderClient ==
    (validated = None \/ \E r \in RejectionReasons : Logged(r))
        => /\ validated = None
           /\ ExitedNonZero
           /\ order_result = Unset
           /\ NoOrderCall

C1_Witness ==
    /\ Exited
    /\ validated = None
    /\ Logged(InvalidStopPrice)

(* C2: whenever the order-creation call raised (a BinanceAPIException or    *)
(* any other Exception), place_order returned None, main goes on to the     *)
(* report, and once ended it has printed STATUS: FAILED and exited with 0.  *)
C2_ApiErrorsNeverCrash ==
    OrderCallRaised
        => /\ order_result = None
           /\ pc \in {"report", "exited"}
           /\ pc = "report" => ENABLED MainReport
           /\ pc = "exited" => /\ exit_status = <<0>>
                               /\ PrintedLine("STATUS", FailedStatus)

C2_Witness ==
    /\ Exited
    /\ \E i \in OrderCalls : api_calls[i].outcome = "BinanceAPIException"
    /\ PrintedLine("STATUS", FailedStatus)

C3_InitFailure ==
    \/ Logged(Rec("CRITICAL", "API Key or Secret not found in .env file. Exiting."))
    \/ Logged(Rec("CRITICAL", "Bot initialization failed. Exiting."))
    \/ \E i \in InfoCalls : api_calls[i].outcome # "return"

(* C3: missing credentials, a failing Client construction or a throwing     *)
(* connectivity check end the process with a nonzero code before validation *)
(* and before any order-creation call; and validation or an order-creation  *)
(* call only ever happens after a connectivity check that succeeded, which  *)
(* was the first call made on the exchange client.                          *)
C3_InitFailureIsFatalAndFirst ==
    /\ C3_InitFailure
          => /\ ExitedNonZero
             /\ args = Unset
             /\ validated = Unset
             /\ NoOrderCall
    /\ (args # Unset \/ validated # Unset \/ ~NoOrderCall)
          => /\ Len(api_calls) >= 1
             /\ api_calls[1].api = "futures_exchange_info"
             /\ api_calls[1].outcome = "return"
             /\ \A i \in OrderCalls : i > 1

C3_Witness ==
    /\ Exited
    /\ \E i \in InfoCalls : api_calls[i].outcome = "Exception"

(* C4 as stated: every ended invocation that reached Rejected, Succeeded or *)
(* Failed has printed a STATUS line.                                        *)
C4_EveryTerminalStateReported ==
    (Exited /\ (validated = None \/ ~NoOrderCall)) => Printed("STATUS")

(* C4 amended: an invocation that issued the order-creation call (Succeeded *)
(* or Failed) always goes on to the report and has printed exactly one      *)
(* STATUS line when it ends, with exit code 0; an invocation that reached   *)
(* Rejected ends with exit code 1 after logging the rejection and the halt  *)
(* at ERROR level, and prints no STATUS line.                               *)
C4_SubmittedIsReportedRejectedIsLogged ==
    /\ ~NoOrderCall
          => /\ pc \in {"report", "exited"}
             /\ pc = "report" => ENABLED MainReport
             /\ pc = "exited"
                   => /\ exit_status = <<0>>
                      /\ Cardinality({i \in DOMAIN stdout : stdout[i].key = "STATUS"}) = 1
    /\ validated = None
          => /\ exit_status = <<1>>
             /\ ~Printed("STATUS")
             /\ Logged(Halted)
             /\ \E r \in RejectionReasons : Logged(r)

C4_Witness ==
    /\ Exited
    /\ validated = None
    /\ Logged(Halted)
    /\ stdout = <<>>

C5_FirstFailedRule ==
    LET t == upper(args.order_type)
    IN  IF BadNumber(args.quantity) THEN InvalidQuantity
        ELSE IF t \in {LIMIT, STOP_LIMIT} /\ args.price = None THEN MissingPrice
        ELSE IF t \in {LIMIT, STOP_LIMIT} /\ BadNumber(args.price.s) THEN InvalidPrice
        ELSE IF t = STOP_LIMIT /\ args.stop_price = None THEN MissingStopPrice
        ELSE IF t = STOP_LIMIT /\ BadNumber(args.stop_price.s) THEN InvalidStopPrice
        ELSE NoRejection

C6_StrictlyPositive(x) == floatGt(x, Finite(0))

(* C6 as stated: every returned request has a price iff its type is LIMIT   *)
(* or STOP_LIMIT, a stop price iff its type is STOP_LIMIT, and a quantity   *)
(* and present prices that are strictly positive.                           *)
C6_RequestInvariant ==
    (pc = "returned" /\ validated # None)
        => /\ validated.price # None <=> validated.type \in {LIMIT, STOP_LIMIT}
           /\ validated.stop_price # None <=> validated.type = STOP_LIMIT
           /\ C6_StrictlyPositive(validated.quantity)
           /\ validated.price # None => C6_StrictlyPositive(validated.price)
           /\ validated.stop_price # None => C6_StrictlyPositive(validated.stop_price)

C7_ExpectedKeys(order_type) ==
    {"symbol", "side", "type", "quantity"}
    \cup (IF order_type \in {LIMIT, STOP_LIMIT} THEN {"price", "timeInForce"} ELSE {})
    \cup (IF order_type = STOP_LIMIT THEN {"stopPrice"} ELSE {})

(* C7: the one order-creation call of an invocation carries exactly the     *)
(* parameter set of the validated request's type, with the request's        *)
(* values: MARKET {symbol, side, type, quantity}; LIMIT those plus price    *)
(* and timeInForce = GTC; STOP_LIMIT those plus price, stopPrice and        *)
(* timeInForce = GTC.                                                       *)
C7_ExactParameterSet ==
    pc \in {"report", "exited"} /\ validated \notin {Unset, None}
        => /\ Cardinality(OrderCalls) = 1
           /\ \A i \in OrderCalls :
                LET params == api_calls[i].params
                IN  /\ DOMAIN params = C7_ExpectedKeys(validated.type)
                    /\ params.symbol = validated.symbol
                    /\ params.side = validated.side
                    /\ params.type = validated.type
                    /\ params.quantity = validated.quantity
                    /\ "price" \in DOMAIN params => params.price = validated.price
                    /\ "stopPrice" \in DOMAIN params
                          => params.stopPrice = validated.stop_price
                    /\ "timeInForce" \in DOMAIN params => params.timeInForce = GTC

C7_Witness ==
    /\ pc = "report"
    /\ validated.type = STOP_LIMIT
    /\ \E i \in OrderCalls :
          DOMAIN api_calls[i].params =
              {"symbol", "side", "type", "quantity", "price", "stopPrice", "timeInForce"}

C8_ValidStopLimit ==
    /\ args # Unset
    /\ args.order_type = STOP_LIMIT
    /\ ~BadNumber(args.quantity)
    /\ args.price # None /\ ~BadNumber(args.price.s)
    /\ args.stop_price # None /\ ~BadNumber(args.stop_price.s)

C8_MayTriggerImmediately ==
    LET p == float(args.price.s).value
        sp == float(args.stop_price.s).value
    IN  \/ args.side = SELL /\ floatGt(sp, p)
        \/ args.side = BUY /\ floatLt(sp, p)

(* C8: a STOP_LIMIT command line whose quantity, price and stop price are   *)
(* all valid is always accepted and submitted, and validate_input emits one *)
(* warning exactly when side = SELL and stopPrice > price, or side = BUY    *)
(* and stopPrice < price; MARKET and LIMIT orders, and stopPrice = price,   *)
(* emit none.                                                               *)
C8_WarningOnly ==
    pc \notin {"start", "construct", "parse", "validate"} /\ args # Unset
        => /\ Len(ofLevel(log, "WARNING")) =
                 (IF C8_ValidStopLimit /\ C8_MayTriggerImmediately THEN 1 ELSE 0)
           /\ C8_ValidStopLimit
                 => /\ validated \notin {Unset, None}
                    /\ pc = "dispatch" => ENABLED MainDispatch
                    /\ pc \in {"report", "exited"} => Cardinality(OrderCalls) = 1
                    /\ pc = "exited" => exit_status = <<0>>

C8_Witness ==
    /\ pc = "exited"
    /\ C8_ValidStopLimit
    /\ args.side = SELL
    /\ floatGt(validated.stop_price, validated.price)
    /\ Len(ofLevel(log, "WARNING")) = 1
    /\ Cardinality(OrderCalls) = 1

(* C9 as stated: every request validate_input returns has a side in         *)
(* {BUY, SELL} and a type in {MARKET, LIMIT, STOP_LIMIT}, for every side    *)
(* and order type string passed in.                                         *)
C9_CanonicalEnums ==
    (pc = "returned" /\ validated # None)
        => /\ validated.side \in OrderSide
           /\ validated.type \in OrderType

(* C10 as stated: whenever the order-creation call returned a response, the *)
(* invocation ends Succeeded: the STATUS, SYMBOL and ORDER ID lines carry   *)
(* the response's fields, a missing field being shown as absent, and no     *)
(* failure is reported, for every response shape.                           *)
C10_SuccessIsReportedFromResponse ==
    (Exited /\ OrderCallReturned)
        => /\ order_result # None
           /\ PrintedLine("STATUS", Get(order_result.items, "status"))
           /\ PrintedLine("SYMBOL", Get(order_result.items, "symbol"))
           /\ PrintedLine("ORDER ID", Get(order_result.items, "orderId"))
           /\ ~PrintedLine("STATUS", FailedStatus)

====
